---- MODULE Spec2Model ----
(***************************************************************************)
(* State-machine model of gifenc-native's LZW encoder (src/lzw_encoder.rs) *)
(* and NeuQuant constructor pipeline (src/neuquant.rs).                    *)
(*                                                                         *)
(* Rust integer semantics are kept: u8 values are reduced modulo 256, and  *)
(* an arithmetic overflow either panics (a build with overflow checks, the *)
(* debug profile) or wraps (the release profile).  The variable            *)
(* overflow_checks is chosen once, in Init, and never changes.             *)
(* A usize that has wrapped below zero is stored as the negative number k  *)
(* standing for 2^64 + k; unsigned comparisons go through UsizeGeq.        *)
(***************************************************************************)
EXTENDS Integers, Sequences, FiniteSets, TLC

VARIABLES
    overflow_checks,  \* TRUE: overflow panics (debug); FALSE: it wraps (release)
    lzw,              \* the LZWEncoder fields, the sink, and what was emitted
    code,             \* compress: local `code` (u8)
    c,                \* compress: local `c` (u8)
    pc,               \* position inside LZWEncoder::encode / compress
    drain_steps,      \* iterations of the end-of-frame loop taken so far
    nq,               \* the NeuQuant fields
    nq_pc             \* position inside NeuQuant::new

vars == <<overflow_checks, lzw, code, c, pc, drain_steps, nq, nq_pc>>

----------------------------------------------------------------------------
(* Bounds of the model *)

MaxPixels == 3
MaxWidth == 3
MaxHeight == 1
MaxDrain == 3
DeepDrain == 300
PriorLen == 256
MaxNqPixels == 4
MaxSampleFactorial == 3

\* Index symbols the pixel buffers are drawn from, and colour depths.
Symbols == {0, 1, 17, 255}
ColorDepths == {2, 8, 12}


RECURSIVE SeqsUpTo(_, _)
SeqsUpTo(S, n) ==
    IF n = 0 THEN {<<>>}
    ELSE LET shorter == SeqsUpTo(S, n - 1)
         IN shorter \cup {Append(s, x) : s \in {t \in shorter : Len(t) = n - 1}, x \in S}

----------------------------------------------------------------------------
(* Program constants of lzw_encoder.rs *)

EOF == -1
BITS == 12
HASH_SIZE == 5003
MASKS == [k \in 0..16 |-> 2^k - 1]

----------------------------------------------------------------------------
(* Integer conversions and operators of the target *)

\* `x as u8`
AsU8(x) == x % 256

\* `a << n` on u8 operands: bits shifted out are lost; a shift amount >= 8
\* is an overflow (panic with overflow checks, else the amount is masked).
ShlU8Overflows(n) == n >= 8
ShlU8(a, n) == (a * 2^(n % 8)) % 256

\* `a + b` on u8 operands
AddU8Overflows(a, b) == a + b > 255
AddU8(a, b) == (a + b) % 256

\* `a ^ b` on 8-bit operands
RECURSIVE XorBits(_, _, _)
XorBits(a, b, n) ==
    IF n = 0 THEN 0
    ELSE (((a % 2) + (b % 2)) % 2) + 2 * XorBits(a \div 2, b \div 2, n - 1)
XorU8(a, b) == XorBits(a, b, 8)

\* `!x` on i32
NotI32(x) == -x - 1

\* `a >= b` on usize operands, a wrapped value being stored as a negative
UsizeGeq(a, b) == IF (a < 0) = (b < 0) THEN a >= b ELSE a < 0

----------------------------------------------------------------------------
(* Fixed-size arrays (hashes, codes: [i32; HASH_SIZE]; accs: 256 bytes),   *)
(* stored as a fill value plus the slots written since the last fill.      *)

FilledArray(v) == [fill |-> v, at |-> <<>>]
ArrayGet(arr, i) == IF i \in DOMAIN arr.at THEN arr.at[i] ELSE arr.fill
ArraySet(arr, i, v) == [arr EXCEPT !.at = (i :> v) @@ @]
\* Every value held by some slot of the array
ArrayValues(arr) ==
    {arr.at[i] : i \in DOMAIN arr.at}
        \cup (IF Cardinality(DOMAIN arr.at) < HASH_SIZE THEN {arr.fill} ELSE {})

Panic(s, why) == [s EXCEPT !.panicked = TRUE, !.why = why]

----------------------------------------------------------------------------
(* LZWEncoder *)

\* LZWEncoder::new with the derived Default of every other field
LZWEncoder_new(width, height, pixels, color_depth, sink) ==
    [ width |-> width, height |-> height, pixels |-> pixels,
      init_code_size |-> IF color_depth > 2 THEN color_depth ELSE 2,
      current_acc |-> 0, current_bits |-> 0, current_pixel |-> 0, acc |-> 0,
      first_unused_entry |-> 0, max_code |-> 0, remaining |-> 0, bit_size |-> 0,
      clear_flag |-> FALSE, global_initial_bits |-> 0,
      clear_code |-> 0, end_of_frame_code |-> 0,
      accs |-> FilledArray(0),
      hashes |-> FilledArray(0), codes |-> FilledArray(0),
      \* the sink handed to encode, and the outcome of the call
      output |-> sink, panicked |-> FALSE, why |-> "", ret |-> 0,
      \* history: the sink as it was handed over, every (code, width) passed
      \* to proc_output and every byte passed to add_char, in order
      prior |-> sink, emitted |-> <<>>, chars |-> <<>> ]

get_max_code(size) == 2^size - 1

reset_hash_range(s, hash_size) ==
    IF s.panicked THEN s
    ELSE IF hash_size = HASH_SIZE THEN [s EXCEPT !.hashes = FilledArray(-1)]
    ELSE Panic(s, "reset_hash_range: partial fill")

\* flush_packet: the length byte is appended, the payload is copied over the
\* FIRST acc bytes of the sink (output[..acc].copy_from_slice)
flush_packet(s) ==
    IF s.panicked THEN s
    ELSE IF s.acc > 0
    THEN LET out1 == Append(s.output, s.acc)
         IN IF Len(out1) < s.acc
            THEN Panic([s EXCEPT !.output = out1], "flush_packet: range end out of bounds")
            ELSE [s EXCEPT !.output = [k \in 1..Len(out1) |->
                                          IF k <= s.acc THEN ArrayGet(s.accs, k - 1)
                                          ELSE out1[k]],
                           !.acc = 0]
    ELSE s

add_char(s, ch) ==
    IF s.panicked THEN s
    ELSE IF s.acc = 255 /\ overflow_checks
    THEN Panic(s, "add_char: attempt to add with overflow")
    ELSE LET s1 == [s EXCEPT !.accs = ArraySet(@, s.acc, ch), !.acc = AddU8(s.acc, 1),
                             !.chars = Append(@, ch)]
         IN IF s1.acc >= 254 THEN flush_packet(s1) ELSE s1

next_pixel(s) ==
    IF s.panicked THEN s
    ELSE IF s.remaining = 0 THEN [s EXCEPT !.ret = AsU8(EOF)]
    ELSE IF s.current_pixel >= Len(s.pixels)
    THEN Panic([s EXCEPT !.remaining = @ - 1], "next_pixel: index out of bounds")
    ELSE [s EXCEPT !.remaining = @ - 1, !.current_pixel = @ + 1,
                   !.ret = AsU8(s.pixels[s.current_pixel + 1])]

\* emit_whole_bytes without the shift `current_acc >>= 8` of line 218
RECURSIVE emit_whole_bytes_keep(_)
emit_whole_bytes_keep(s) ==
    IF s.panicked \/ s.current_bits < 8 THEN s
    ELSE LET s1 == add_char(s, AsU8(s.current_acc))
         IN IF s1.panicked THEN s1
            ELSE emit_whole_bytes_keep([s1 EXCEPT !.current_bits = @ - 8])

\* proc_output, lines 216-220: while current_bits >= 8
RECURSIVE emit_whole_bytes(_)
emit_whole_bytes(s) ==
    IF s.panicked \/ s.current_bits < 8 THEN s
    ELSE LET s1 == add_char(s, AsU8(s.current_acc))
         IN IF s1.panicked THEN s1
            ELSE emit_whole_bytes([s1 EXCEPT !.current_acc = @ \div 256,
                                             !.current_bits = @ - 8])

\* next_code_size with `>=` in place of `>` at line 222
next_code_size_eager(s) ==
    IF s.panicked THEN s
    ELSE IF s.first_unused_entry >= s.max_code \/ s.clear_flag
    THEN IF s.clear_flag
         THEN [s EXCEPT !.bit_size = s.global_initial_bits,
                        !.max_code = get_max_code(s.global_initial_bits),
                        !.clear_flag = FALSE]
         ELSE [s EXCEPT !.bit_size = @ + 1,
                        !.max_code = IF s.bit_size + 1 = BITS THEN 2^BITS
                                     ELSE get_max_code(s.bit_size + 1)]
    ELSE s

\* proc_output, lines 222-235: the code width after a code was written
next_code_size(s) ==
    IF s.panicked THEN s
    ELSE IF s.first_unused_entry > s.max_code \/ s.clear_flag
    THEN IF s.clear_flag
         THEN [s EXCEPT !.bit_size = s.global_initial_bits,
                        !.max_code = get_max_code(s.global_initial_bits),
                        !.clear_flag = FALSE]
         ELSE [s EXCEPT !.bit_size = @ + 1,
                        !.max_code = IF s.bit_size + 1 = BITS THEN 2^BITS
                                     ELSE get_max_code(s.bit_size + 1)]
    ELSE s

\* proc_output, lines 205-235 (the end-of-frame loop of lines 237-244 is DrainStep)
proc_output(s, code_) ==
    IF s.panicked THEN s
    ELSE IF s.current_bits \notin DOMAIN MASKS
    THEN Panic(s, "proc_output: MASKS index out of bounds")
    ELSE LET masked == s.current_acc % (MASKS[s.current_bits] + 1)
             s1 == [s EXCEPT !.current_acc = IF s.current_bits > 0
                                             THEN masked + code_ * 2^s.current_bits
                                             ELSE code_,
                             !.current_bits = @ + s.bit_size,
                             !.emitted = Append(@, [code |-> code_, width |-> s.bit_size])]
         IN next_code_size(emit_whole_bytes(s1))

clear_code_table(s) ==
    IF s.panicked THEN s
    ELSE LET s1 == reset_hash_range(s, HASH_SIZE)
             s2 == [s1 EXCEPT !.first_unused_entry = s.clear_code + 2,
                              !.clear_flag = TRUE]
         IN proc_output(s2, s2.clear_code)

\* compress, lines 100-107
compress_begin(s, init_bits) ==
    [s EXCEPT !.global_initial_bits = init_bits,
              !.clear_flag = FALSE,
              !.bit_size = init_bits,
              !.max_code = get_max_code(init_bits),
              !.clear_code = 2^(init_bits - 1),
              !.end_of_frame_code = 2^(init_bits - 1) + 1,
              !.first_unused_entry = 2^(init_bits - 1) + 2,
              !.acc = 0]

\* compress, line 117: hash = ((c << BITS) + code) as i32, on u8 operands
HashOverflows(c_, code_) ==
    ShlU8Overflows(BITS) \/ AddU8Overflows(ShlU8(c_, BITS), code_)
HashOf(c_, code_) == AddU8(ShlU8(c_, BITS), code_)

\* compress, line 119: i = ((c << hash_shift) ^ code) as usize, hash_shift = 4
SlotOf(c_, code_) == XorU8(ShlU8(c_, 4), code_)

\* compress, lines 125-140: the secondary probe from slot i.  i is a usize:
\* i -= dispose below zero panics with overflow checks, and otherwise wraps
\* to 2^64 + i - dispose, for which `i < 0` is false and hashes[i] is out of
\* bounds.
RECURSIVE probe(_, _, _, _)
probe(s, i, dispose, hash) ==
    LET j == i - dispose
    IN IF j < 0 THEN [kind |-> "panic", i |-> j]
       ELSE IF ArrayGet(s.hashes, j) = hash THEN [kind |-> "hit", i |-> j]
       ELSE IF NotI32(ArrayGet(s.hashes, j)) >= 0 THEN [kind |-> "empty", i |-> j]
       ELSE probe(s, j, dispose, hash)

\* compress, lines 119-140: where the pair (code, c) is looked up
lookup(s, c_, code_) ==
    LET hash == HashOf(c_, code_)
        i == SlotOf(c_, code_)
    IN IF ArrayGet(s.hashes, i) = hash THEN [kind |-> "hit", i |-> i]
       ELSE IF ArrayGet(s.hashes, i) >= 0
       THEN probe(s, i, IF i = 0 THEN 1 ELSE HASH_SIZE - i, hash)
       ELSE [kind |-> "empty", i |-> i]

----------------------------------------------------------------------------
(* Actions of LZWEncoder::encode *)

LzwIdle == UNCHANGED <<overflow_checks, nq, nq_pc>>

\* encode, lines 92-95, and compress up to the loop head, lines 100-115
Encode ==
    /\ pc = "new"
    /\ LET s0 == [lzw EXCEPT !.output = Append(@, lzw.init_code_size),
                             !.remaining = lzw.width * lzw.height,
                             !.current_pixel = 0]
           s1 == compress_begin(s0, s0.init_code_size + 1)
           s2 == next_pixel(s1)
           s3 == reset_hash_range(s2, HASH_SIZE)
           s4 == proc_output(s3, s3.clear_code)
           s5 == next_pixel(s4)
       IN /\ lzw' = s5
          /\ code' = s2.ret
          /\ c' = s5.ret
          /\ pc' = IF s5.panicked THEN "panic" ELSE "loop"
    /\ UNCHANGED drain_steps
    /\ LzwIdle

InLoop == pc = "loop" /\ c # AsU8(EOF)

\* line 117 with overflow checks: c << BITS shifts a u8 by 12
HashPanic ==
    /\ InLoop
    /\ overflow_checks /\ HashOverflows(c, code)
    /\ lzw' = Panic(lzw, "compress: attempt to shift left with overflow")
    /\ pc' = "panic"
    /\ UNCHANGED <<code, c, drain_steps>>
    /\ LzwIdle

LoopReady == InLoop /\ ~(overflow_checks /\ HashOverflows(c, code))

\* lines 120-123 and 132-135: the pair is found; `continue` re-enters the
\* loop with the same c
Hit ==
    /\ LoopReady
    /\ LET r == lookup(lzw, c, code)
       IN /\ r.kind = "hit"
          /\ code' = AsU8(ArrayGet(lzw.codes, r.i))
    /\ UNCHANGED <<lzw, c, pc, drain_steps>>
    /\ LzwIdle

\* lines 126-131: the secondary probe leaves the table
ProbePanic ==
    /\ LoopReady
    /\ lookup(lzw, c, code).kind = "panic"
    /\ lzw' = Panic(lzw, IF overflow_checks
                         THEN "compress: attempt to subtract with overflow"
                         ELSE "compress: index out of bounds")
    /\ pc' = "panic"
    /\ UNCHANGED <<code, c, drain_steps>>
    /\ LzwIdle

\* store_or_clear with the table limit of line 144 one bit too high
store_or_clear_late(s, i, hash) ==
    IF s.panicked THEN s
    ELSE IF s.first_unused_entry < 2^(BITS + 1)
    THEN [s EXCEPT !.codes = ArraySet(@, i, s.first_unused_entry),
                   !.first_unused_entry = @ + 1,
                   !.hashes = ArraySet(@, i, hash)]
    ELSE clear_code_table(s)

\* lines 142-150: what is done with slot i once the pair was not found
store_or_clear(s, i, hash) ==
    IF s.panicked THEN s
    ELSE IF s.first_unused_entry < 2^BITS
    THEN [s EXCEPT !.codes = ArraySet(@, i, s.first_unused_entry),
                   !.first_unused_entry = @ + 1,
                   !.hashes = ArraySet(@, i, hash)]
    ELSE clear_code_table(s)

\* lines 142-152: the pair is new
Miss ==
    /\ LoopReady
    /\ LET r == lookup(lzw, c, code)
       IN /\ r.kind = "empty"
          /\ LET s1 == proc_output(lzw, code)
                 s2 == store_or_clear(s1, r.i, HashOf(c, code))
                 s3 == next_pixel(s2)
             IN /\ lzw' = s3
                /\ code' = c
                /\ c' = IF s3.panicked THEN c ELSE s3.ret
                /\ pc' = IF s3.panicked THEN "panic" ELSE "loop"
    /\ UNCHANGED drain_steps
    /\ LzwIdle

\* line 155
FinalCode ==
    /\ pc = "loop" /\ c = AsU8(EOF)
    /\ lzw' = proc_output(lzw, code)
    /\ pc' = IF lzw'.panicked THEN "panic" ELSE "eof"
    /\ UNCHANGED <<code, c, drain_steps>>
    /\ LzwIdle

\* line 156: proc_output(end_of_frame_code), up to line 235
EndOfFrame ==
    /\ pc = "eof"
    /\ lzw' = proc_output(lzw, lzw.end_of_frame_code)
    /\ pc' = IF lzw'.panicked THEN "panic" ELSE "drain"
    /\ UNCHANGED <<code, c, drain_steps>>
    /\ LzwIdle

\* How many iterations of the end-of-frame loop the model follows
DrainBudget == IF lzw.pixels = <<>> /\ lzw.width = 0 THEN DeepDrain ELSE MaxDrain

\* lines 237-244, one iteration of `while self.current_bits >= 0`, then
\* flush_packet and encode's line 96 once the loop is left
DrainStep ==
    /\ pc = "drain"
    /\ drain_steps < DrainBudget
    /\ drain_steps' = drain_steps + 1
    /\ IF UsizeGeq(lzw.current_bits, 0)
       THEN LET s1 == add_char(lzw, AsU8(lzw.current_acc))
                s2 == IF s1.panicked THEN s1
                      ELSE IF s1.current_bits >= 0 /\ s1.current_bits < 8 /\ overflow_checks
                      THEN Panic([s1 EXCEPT !.current_acc = @ \div 256],
                                 "proc_output: attempt to subtract with overflow")
                      ELSE [s1 EXCEPT !.current_acc = @ \div 256,
                                      !.current_bits = @ - 8]
            IN /\ lzw' = s2
               /\ pc' = IF s2.panicked THEN "panic" ELSE "drain"
       ELSE LET s1 == flush_packet(lzw)
            IN /\ lzw' = IF s1.panicked THEN s1
                         ELSE [s1 EXCEPT !.output = Append(@, 0)]
               /\ pc' = IF s1.panicked THEN "panic" ELSE "done"
    /\ UNCHANGED <<code, c>>
    /\ LzwIdle

----------------------------------------------------------------------------
(* Program constants of neuquant.rs *)

MAX_COLORS == 256
MAX_COLORS_IDX == MAX_COLORS - 1
NET_BIAS_SHIFT == 4
INT_BIAS_SHIFT == 16
INT_BIAS == 2^INT_BIAS_SHIFT
MAX_RAD == MAX_COLORS \div 2^3
INIT_RAD_BIAS_SHIFT == 6
INIT_RAD_BIAS == 2^INIT_RAD_BIAS_SHIFT
INIT_RAD == MAX_RAD * INIT_RAD_BIAS
ALPHA_BIAS_SHIFT == 10
INIT_ALPHA == 2^ALPHA_BIAS_SHIFT
RAD_BIAS_SHIFT == 8
RAD_BIAS == 2^RAD_BIAS_SHIFT
ALPHA_RAD_BIAS_SHIFT == ALPHA_BIAS_SHIFT + RAD_BIAS_SHIFT
ALPHA_RAD_BIAS == 2^ALPHA_RAD_BIAS_SHIFT
GAMMA_SHIFT == 10
BETA_SHIFT == 10
BETA == INT_BIAS \div 2^BETA_SHIFT
BETA_GAMMA == INT_BIAS * 2^(GAMMA_SHIFT - BETA_SHIFT)
INIT_RAD_DEC == 30
LEARNING_CYCLES == 100
PRIME_1 == 599
PRIME_2 == 491
PRIME_3 == 487
PRIME_4 == 503
MIN_PIC_BYTES == 3 * PRIME_4

----------------------------------------------------------------------------
(* NeuQuant.  A neuron is <<b, g, r, index>>; nets, biases and freqs are    *)
(* indexed from 0 as in the source; net_idxs is a sequence, the entry of    *)
(* green level g at position g + 1.                                         *)

\* `x as usize` on an f64 holding an integer: negative values saturate to 0
AsUsize(x) == IF x < 0 THEN 0 ELSE x

\* The struct literal of NeuQuant::new, lines 69-77
NeuQuant_new(pixels, sample_factorial) ==
    [ pixels |-> pixels, sample_factorial |-> sample_factorial,
      nets |-> [i \in 0..MAX_COLORS - 1 |-> <<0, 0, 0, 0>>],
      net_idxs |-> [g \in 1..MAX_COLORS |-> 0],
      biases |-> [i \in 0..MAX_COLORS - 1 |-> 0],
      freqs |-> [i \in 0..MAX_COLORS - 1 |-> INT_BIAS \div MAX_COLORS],
      \* Vec::with_capacity(MAX_COLORS >> 3): capacity 32, length 0
      rad_powers |-> <<>>,
      panicked |-> FALSE, why |-> "" ]

\* init, lines 84-90
init(s) ==
    [s EXCEPT !.nets = [i \in 0..MAX_COLORS - 1 |->
                           LET v == (i * 2^(NET_BIAS_SHIFT + 8)) \div MAX_COLORS
                           IN <<v, v, v, 0>>]]

\* recalc_rad_powers, lines 206-214: rad_powers[..local_rad] must lie inside
\* the vector
recalc_rad_powers(s, local_rad, alpha) ==
    IF s.panicked THEN s
    ELSE IF local_rad > Len(s.rad_powers)
    THEN Panic(s, "recalc_rad_powers: range end out of bounds")
    ELSE [s EXCEPT !.rad_powers =
             [k \in 1..Len(s.rad_powers) |->
                 IF k <= local_rad
                 THEN alpha * (((local_rad * local_rad - (k - 1) * (k - 1)) * RAD_BIAS)
                                  \div (local_rad * local_rad))
                 ELSE s.rad_powers[k]]]

\* learn, lines 93-106: everything before the sampling loop.  sample_factorial
\* and the divisor 3 * sample_factorial are u8.
learn_begin(s) ==
    LET sf == s.sample_factorial
        len == Len(s.pixels)
        divisor == AsU8(3 * sf)
        local_rad == INIT_RAD \div 2^INIT_RAD_BIAS_SHIFT
    IN IF sf = 0 /\ overflow_checks
       THEN Panic(s, "learn: attempt to subtract with overflow")
       ELSE IF 3 * sf > 255 /\ overflow_checks
       THEN Panic(s, "learn: attempt to multiply with overflow")
       ELSE IF divisor = 0
       THEN Panic(s, "learn: attempt to divide by zero")
       ELSE recalc_rad_powers(s, IF local_rad <= 1 THEN 0 ELSE local_rad, INIT_ALPHA)

\* learn, line 94: the divisor of the alpha decay, from the sample_factorial
\* the instance was built with; sample_factorial - 1 is a u8 subtraction
alpha_dec(s) == 30 + AsU8(s.sample_factorial - 1) \div 3

\* learn, line 95: the number of samples, `len as u8 / (3 * sample_factorial)`
\* with a u8 product
sample_pixels(s) == AsU8(Len(s.pixels)) \div AsU8(3 * s.sample_factorial)

\* learn, lines 108-119: the stride through the buffer
step(s) ==
    LET len == Len(s.pixels)
    IN IF len < MIN_PIC_BYTES THEN 3
       ELSE IF len % PRIME_1 # 0 THEN 3 * PRIME_1
       ELSE IF len % PRIME_2 # 0 THEN 3 * PRIME_2
       ELSE IF len % PRIME_3 # 0 THEN 3 * PRIME_3
       ELSE 3 * PRIME_4

\* learn, lines 93-122: the instance and the locals at the head of the
\* sampling loop.  Line 109 sets sample_factorial to 1 after lines 94-95 have
\* read it.
learn_locals(s) ==
    LET rad == INIT_RAD
        local_rad == rad \div 2^INIT_RAD_BIAS_SHIFT
    IN [ s |-> IF Len(s.pixels) < MIN_PIC_BYTES
               THEN [learn_begin(s) EXCEPT !.sample_factorial = 1]
               ELSE learn_begin(s),
         alpha_dec |-> alpha_dec(s),
         sample_pixels |-> sample_pixels(s),
         delta |-> sample_pixels(s) \div LEARNING_CYCLES,
         alpha |-> INIT_ALPHA,
         rad |-> rad,
         local_rad |-> IF local_rad <= 1 THEN 0 ELSE local_rad,
         step |-> step(s),
         pixel_pos |-> 0,
         i |-> 0 ]

\* unbias_net, lines 159-167
unbias_net(s) ==
    [s EXCEPT !.nets = [i \in 0..MAX_COLORS - 1 |->
                           << AsUsize(s.nets[i][1]) \div 2^NET_BIAS_SHIFT,
                              AsUsize(s.nets[i][2]) \div 2^NET_BIAS_SHIFT,
                              AsUsize(s.nets[i][3]) \div 2^NET_BIAS_SHIFT,
                              i >>]]

\* build_idxs, lines 174-180: min_by over nets[i..], enumerated from 0: the
\* position of the first neuron of least green, RELATIVE to i
min_pos_from(nets, i) ==
    (CHOOSE k \in i..MAX_COLORS - 1 :
        \A j \in i..MAX_COLORS - 1 :
            nets[k][2] < nets[j][2] \/ (nets[k][2] = nets[j][2] /\ k <= j)) - i

\* The slice arr[from..to] of a vector kept as a sequence (element k of the
\* source at position k + 1) filled with v, as slice.iter_mut().for_each
Filled(arr, from, to, v) ==
    SubSeq(arr, 1, from) \o [k \in 1..(to - from) |-> v] \o SubSeq(arr, to + 1, Len(arr))

\* build_idxs, lines 174-194: iteration i of the loop, on the instance s and
\* the locals prev_color and start_pos held in the record t
build_idxs_step(t, i) ==
    LET s == t.s
        min_pos == min_pos_from(s.nets, i)
        min_val == AsUsize(s.nets[i + min_pos][2])
        swapped == IF i # min_pos
                   THEN [s.nets EXCEPT ![min_pos] = s.nets[i], ![i] = s.nets[min_pos]]
                   ELSE s.nets
        s1 == [s EXCEPT !.nets = swapped]
        idxs == IF min_val = t.prev_color THEN s1
                ELSE IF t.prev_color > MAX_COLORS - 1
                THEN Panic(s1, "build_idxs: index out of bounds")
                ELSE IF t.prev_color + 1 > min_val \/ min_val > MAX_COLORS
                THEN Panic(s1, "build_idxs: slice range out of bounds")
                ELSE [s1 EXCEPT !.net_idxs =
                         Filled([s.net_idxs EXCEPT ![t.prev_color + 1] =
                                                    (t.start_pos + i) \div 2],
                                t.prev_color + 1, min_val, i)]
    IN [s |-> idxs, prev_color |-> min_val, start_pos |-> i]

\* build_idxs, lines 173-195: iterations lo .. hi - 1 of the loop, in order,
\* stopping at a panic
RECURSIVE build_idxs_loop(_, _, _)
build_idxs_loop(t, lo, hi) ==
    IF lo >= hi THEN t
    ELSE IF hi = lo + 1 THEN build_idxs_step(t, lo)
    ELSE LET mid == (lo + hi) \div 2
             half == build_idxs_loop(t, lo, mid)
         IN IF half.s.panicked THEN half ELSE build_idxs_loop(half, mid, hi)

\* build_idxs, lines 169-203
build_idxs(s) ==
    LET t == build_idxs_loop([s |-> s, prev_color |-> 0, start_pos |-> 0], 0, MAX_COLORS)
    IN IF t.s.panicked THEN t.s
       ELSE IF t.prev_color > MAX_COLORS - 1
       THEN Panic(t.s, "build_idxs: index out of bounds")
       ELSE [t.s EXCEPT !.net_idxs =
                Filled([t.s.net_idxs EXCEPT ![t.prev_color + 1] =
                                             (t.start_pos + MAX_COLORS_IDX) \div 2],
                       t.prev_color + 1, MAX_COLORS, MAX_COLORS_IDX)]

\* get_color_map, lines 216-229: triple k is the colour of nets[idx[k]],
\* idx[net[3]] being the position of the neuron
get_color_map(s) ==
    LET idx == [k \in 0..MAX_COLORS - 1 |->
                   IF \E i \in 0..MAX_COLORS - 1 : s.nets[i][4] = k
                   THEN CHOOSE i \in 0..MAX_COLORS - 1 :
                            /\ s.nets[i][4] = k
                            /\ \A j \in 0..MAX_COLORS - 1 : s.nets[j][4] = k => j <= i
                   ELSE 0]
    IN [k \in 0..MAX_COLORS - 1 |->
           <<s.nets[idx[k]][1], s.nets[idx[k]][2], s.nets[idx[k]][3]>>]

Abs(x) == IF x < 0 THEN -x ELSE x

\* lookup_rgb, lines 236-251 and 253-268: the scan of positions k, k + dir, ...
\* up to `last`, carrying the best distance and the best index
RECURSIVE scan(_, _, _, _, _, _, _, _)
scan(s, k, dir, last, b, g, r, best) ==
    IF (dir = 1 /\ k > last) \/ (dir = -1 /\ k < last) THEN best
    ELSE LET net == s.nets[k]
             d1 == Abs(net[2] - g)
             d2 == d1 + Abs(net[1] - b)
             d3 == d2 + Abs(net[3] - r)
         IN IF d1 >= best.distance THEN best
            ELSE IF d2 >= best.distance \/ d3 >= best.distance
            THEN scan(s, k + dir, dir, last, b, g, r, best)
            ELSE scan(s, k + dir, dir, last, b, g, r, [distance |-> d3, best |-> net[4]])

\* lookup_rgb, lines 231-271.  nets[..idx - 1] with idx = 0 underflows: a
\* panic with overflow checks, a range end out of bounds without.
lookup_rgb(s, b, g, r) ==
    LET idx == s.net_idxs[g + 1]
        up == scan(s, idx, 1, MAX_COLORS - 1, b, g, r, [distance |-> 1000, best |-> -1])
    IN IF idx = 0 THEN [panicked |-> TRUE, best |-> -1]
       ELSE [panicked |-> FALSE,
             best |-> scan(s, idx - 2, -1, 0, b, g, r, up).best]

----------------------------------------------------------------------------
(* One round of the sampling loop of learn.  A usize that has wrapped below *)
(* zero is stored as the negative number it wrapped from.                   *)

\* `a > b` on usize operands
UsizeGt(a, b) == ~UsizeGeq(b, a)

\* contest, line 315: !(1 << 31), above every distance of two colours
best_distance_init == (2^30 - 1) * 2 + 1

\* contest, lines 323-327: the distance of neuron i to the colour
distance(s, i, b, g, r) ==
    Abs(s.nets[i][1] - b) + Abs(s.nets[i][2] - g) + Abs(s.nets[i][3] - r)

\* contest, lines 333-335: a usize subtraction
bias_distance(s, i, b, g, r) ==
    distance(s, i, b, g, r)
        - Abs(s.biases[i] \div 2^(INT_BIAS_SHIFT - NET_BIAS_SHIFT))

\* contest, lines 328-331 and 336-339: the first position of the least value
\* below the initial best, 0 if there is none; a wrapped value is never below
first_least(val) ==
    LET below == {i \in 0..MAX_COLORS - 1 : val[i] >= 0 /\ val[i] < best_distance_init}
    IN IF below = {} THEN 0
       ELSE CHOOSE i \in below :
                \A k \in below : val[i] < val[k] \/ (val[i] = val[k] /\ i <= k)

\* contest, lines 314-350: the instance afterwards and the position returned,
\* best_bias_pos.  biases and freqs are read from the copies zipped at line
\* 321.
contest(s, b, g, r) ==
    LET d == [i \in 0..MAX_COLORS - 1 |-> distance(s, i, b, g, r)]
        bd == [i \in 0..MAX_COLORS - 1 |-> bias_distance(s, i, b, g, r)]
        best_pos == first_least(d)
        best_bias_pos == first_least(bd)
        beta_freq(i) == s.freqs[i] \div 2^BETA_SHIFT
    IN IF s.panicked THEN [s |-> s, pos |-> 0]
       ELSE IF overflow_checks /\ \E i \in 0..MAX_COLORS - 1 : bd[i] < 0
       THEN [s |-> Panic(s, "contest: attempt to subtract with overflow"), pos |-> 0]
       ELSE [s |-> [s EXCEPT
                      !.freqs = [i \in 0..MAX_COLORS - 1 |->
                                    s.freqs[i] - beta_freq(i)
                                        + (IF i = best_pos THEN BETA ELSE 0)],
                      !.biases = [i \in 0..MAX_COLORS - 1 |->
                                     s.biases[i] + beta_freq(i) * 2^GAMMA_SHIFT
                                         - (IF i = best_pos THEN BETA_GAMMA ELSE 0)]],
             pos |-> best_bias_pos]

\* alter_single, lines 283-287: the local `net`, a copy of nets[i], after the
\* three updates; each component is the fraction <<numerator, bias>>
alter_single_net(s, alpha, i, b, g, r, bias) ==
    << <<s.nets[i][1] * bias - alpha * (s.nets[i][1] - b), bias>>,
       <<s.nets[i][2] * bias - alpha * (s.nets[i][2] - g), bias>>,
       <<s.nets[i][3] * bias - alpha * (s.nets[i][3] - r), bias>> >>

\* alter_single, lines 274-288: `let net = self.nets[i]` copies the neuron and
\* the updates go to the copy, which is dropped on return; only the index is
\* checked against the array
alter_single(s, alpha, i, b, g, r, bias) ==
    IF s.panicked THEN s
    ELSE IF i \notin 0..MAX_COLORS - 1
    THEN Panic(s, "alter_single: index out of bounds")
    ELSE s

\* alter_neighbors, lines 298-311
RECURSIVE alter_neighbors_loop(_, _, _, _, _, _, _, _, _)
alter_neighbors_loop(s, lo, hi, j, k, m, b, g, r) ==
    IF s.panicked \/ ~(j < hi \/ UsizeGt(k, lo)) THEN s
    ELSE IF m >= Len(s.rad_powers)
    THEN Panic(s, "alter_neighbors: index out of bounds")
    ELSE LET alpha == s.rad_powers[m + 1]
             s1 == IF j < hi
                   THEN alter_single(s, alpha, j, b, g, r, ALPHA_RAD_BIAS)
                   ELSE s
             s2 == IF UsizeGt(k, lo)
                   THEN alter_single(s1, alpha, k, b, g, r, ALPHA_RAD_BIAS)
                   ELSE s1
         IN alter_neighbors_loop(s2, lo, hi,
                                 IF j < hi THEN j + 1 ELSE j,
                                 IF UsizeGt(k, lo) THEN k - 1 ELSE k,
                                 m + 1, b, g, r)

\* alter_neighbors, lines 290-312; i - 1 is a usize subtraction
alter_neighbors(s, rad, i, b, g, r) ==
    IF s.panicked THEN s
    ELSE IF i = 0 /\ overflow_checks
    THEN Panic(s, "alter_neighbors: attempt to subtract with overflow")
    ELSE alter_neighbors_loop(s, Abs(i - rad),
                              IF i + rad < MAX_COLORS THEN i + rad ELSE MAX_COLORS,
                              i + 1, i - 1, 1, b, g, r)

\* learn, lines 124-126: a byte of the buffer scaled by a u8 shift
sample(s, pos) == ShlU8(s.pixels[pos + 1], NET_BIAS_SHIFT)

\* learn, lines 124-153: one round of the sampling loop on the locals l
learn_round(l) ==
    IF l.s.panicked THEN l
    ELSE IF l.pixel_pos + 2 >= Len(l.s.pixels)
    THEN [l EXCEPT !.s = Panic(l.s, "learn: index out of bounds")]
    ELSE
    LET b == sample(l.s, l.pixel_pos)
        g == sample(l.s, l.pixel_pos + 1)
        r == sample(l.s, l.pixel_pos + 2)
        won == contest(l.s, b, g, r)
        single == alter_single(won.s, l.alpha, won.pos, b, g, r, INIT_ALPHA)
        moved == IF l.local_rad = 0
                 THEN alter_neighbors(single, l.local_rad, won.pos, b, g, r)
                 ELSE single
        delta == IF l.delta = 0 THEN 1 ELSE l.delta
        alpha == l.alpha - l.alpha \div l.alpha_dec
        rad == l.rad - l.rad \div INIT_RAD_DEC
        local_rad == IF rad \div 2^INIT_RAD_BIAS_SHIFT <= 1
                     THEN 0 ELSE rad \div 2^INIT_RAD_BIAS_SHIFT
        next == [l EXCEPT !.s = moved,
                          !.pixel_pos = (l.pixel_pos + l.step) % Len(l.s.pixels),
                          !.delta = delta,
                          !.i = l.i + 1]
    IN IF moved.panicked \/ (l.i + 1) % delta # 0 THEN next
       ELSE [next EXCEPT !.alpha = alpha, !.rad = rad, !.local_rad = local_rad,
                         !.s = recalc_rad_powers(moved, local_rad, alpha)]

----------------------------------------------------------------------------
(* Actions of NeuQuant::new *)

NqIdle == UNCHANGED <<overflow_checks, lzw, code, c, pc, drain_steps>>

\* new, line 78: .init()
NqInit ==
    /\ nq_pc = "new"
    /\ nq' = init(nq)
    /\ nq_pc' = "init"
    /\ NqIdle

\* new, line 79: .learn(), up to the sampling loop
NqLearn ==
    /\ nq_pc = "init"
    /\ nq' = learn_begin(nq)
    /\ nq_pc' = IF nq'.panicked THEN "panic" ELSE "sampling"
    /\ NqIdle

----------------------------------------------------------------------------
(* Specifications *)

\* Pixel bytes and sampling factors NeuQuant::new is called with
NqBytes == {0, 255}
SampleFactorials == (0..MaxSampleFactorial) \cup {86, 255}

InitLzw ==
    /\ overflow_checks \in BOOLEAN
    /\ \E width \in 0..MaxWidth, height \in 1..MaxHeight,
          pixels \in SeqsUpTo(Symbols, MaxPixels),
          color_depth \in ColorDepths,
          prior \in {0, PriorLen} :
            lzw = LZWEncoder_new(width, height, pixels, color_depth,
                                 [k \in 1..prior |-> 71])
    /\ code = 0 /\ c = 0 /\ pc = "new" /\ drain_steps = 0
    /\ nq = <<>> /\ nq_pc = "idle"

NextLzw ==
    \/ Encode
    \/ HashPanic
    \/ Hit
    \/ ProbePanic
    \/ Miss
    \/ FinalCode
    \/ EndOfFrame
    \/ DrainStep

\* One call of LZWEncoder::new followed by encode
LzwSpec == InitLzw /\ [][NextLzw]_vars

InitNq ==
    /\ overflow_checks \in BOOLEAN
    /\ \E pixels \in SeqsUpTo(NqBytes, MaxNqPixels),
          sample_factorial \in SampleFactorials :
            nq = NeuQuant_new(pixels, sample_factorial)
    /\ nq_pc = "new"
    /\ lzw = <<>> /\ code = 0 /\ c = 0 /\ pc = "idle" /\ drain_steps = 0

NextNq ==
    \/ NqInit
    \/ NqLearn

\* One call of NeuQuant::new
NqSpec == InitNq /\ [][NextNq]_vars

----------------------------------------------------------------------------
(* Vocabulary of the properties *)

\* A valid call of encode: as many indices as width * height, each below
\* 2^colorDepth, colorDepth a GIF colour depth
GifDepth == lzw.init_code_size \in 2..8
ValidInput ==
    /\ GifDepth
    /\ Len(lzw.pixels) = lzw.width * lzw.height
    /\ \A k \in 1..Len(lzw.pixels) : lzw.pixels[k] < 2^lzw.init_code_size

EncodeEnded == pc \in {"done", "panic"}

\* The codes passed to proc_output so far
CodesOf(s) == [k \in 1..Len(s.emitted) |-> s.emitted[k].code]
EmittedCodes == CodesOf(lzw)
EoiPositions == {k \in 1..Len(lzw.emitted) : lzw.emitted[k].code = lzw.end_of_frame_code}

\* What encode has appended to the sink it was handed
Appended(s) == SubSeq(s.output, Len(s.prior) + 1, Len(s.output))

IsPrefix(a, b) == Len(a) <= Len(b) /\ \A k \in 1..Len(a) : a[k] = b[k]

(* A reference GIF/LZW decoder: bits least significant first, variable code *)
(* width, CLEAR and EOI, sub-block de-packetization.  DecodeError is the    *)
(* result for a stream no decoder accepts.                                  *)

DecodeError == <<-1>>

ByteBits(b) == [k \in 1..8 |-> (b \div 2^(k - 1)) % 2]

RECURSIVE BitsOf(_)
BitsOf(bytes) ==
    IF bytes = <<>> THEN <<>> ELSE ByteBits(Head(bytes)) \o BitsOf(Tail(bytes))

RECURSIVE BitsValue(_, _, _)
BitsValue(bits, pos, n) ==
    IF n = 0 THEN 0 ELSE bits[pos + 1] + 2 * BitsValue(bits, pos + 1, n - 1)

RECURSIVE LzwDecode(_, _, _, _, _, _, _)
LzwDecode(bits, pos, m, w, entries, prev, out) ==
    LET clear == 2^m
        next == clear + 2 + Len(entries)
        StringOf(k) == IF k < clear THEN <<k>> ELSE entries[k - clear - 1]
    IN IF pos + w > Len(bits) THEN DecodeError
       ELSE LET k == BitsValue(bits, pos, w)
            IN IF k = clear THEN LzwDecode(bits, pos + w, m, m + 1, <<>>, -1, out)
               ELSE IF k = clear + 1 THEN out
               ELSE IF prev = -1
               THEN IF k < clear
                    THEN LzwDecode(bits, pos + w, m, w, entries, k, Append(out, k))
                    ELSE DecodeError
               ELSE IF k > next THEN DecodeError
               ELSE LET str == IF k < next THEN StringOf(k)
                               ELSE Append(StringOf(prev), StringOf(prev)[1])
                        grown == IF next < 4096
                                 THEN Append(entries, Append(StringOf(prev), str[1]))
                                 ELSE entries
                        w2 == IF next + 1 >= 2^w /\ w < 12 THEN w + 1 ELSE w
                    IN LzwDecode(bits, pos + w, m, w2, grown, k, out \o str)

RECURSIVE Unpacketize(_, _)
Unpacketize(bytes, pos) ==
    IF pos > Len(bytes) THEN DecodeError
    ELSE IF bytes[pos] = 0 THEN <<>>
    ELSE IF pos + bytes[pos] > Len(bytes) THEN DecodeError
    ELSE LET rest == Unpacketize(bytes, pos + bytes[pos] + 1)
         IN IF rest = DecodeError THEN DecodeError
            ELSE SubSeq(bytes, pos + 1, pos + bytes[pos]) \o rest

\* Decoding what encode appended: the code size byte, then the sub-blocks
GifDecode(bytes) ==
    IF bytes = <<>> THEN DecodeError
    ELSE LET payload == Unpacketize(bytes, 2)
         IN IF payload = DecodeError THEN DecodeError
            ELSE LzwDecode(BitsOf(payload), 0, bytes[1], bytes[1] + 1, <<>>, -1, <<>>)

\* The bit stream written so far: the bytes handed to add_char, then the
\* bits still buffered in current_acc
StreamBits ==
    BitsOf(lzw.chars)
        \o [k \in 1..lzw.current_bits |-> (lzw.current_acc \div 2^(k - 1)) % 2]

\* The end-of-frame code has just been written
AtEndOfFrame == pc = "drain" /\ drain_steps = 0

\* The sub-blocks of a packetized stream, each a length byte in 1..254 and
\* that many bytes: bytes from position pos on are whole sub-blocks
RECURSIVE WholeSubBlocks(_, _)
WholeSubBlocks(bytes, pos) ==
    \/ pos = Len(bytes) + 1
    \/ /\ pos <= Len(bytes)
       /\ bytes[pos] \in 1..254
       /\ pos + bytes[pos] <= Len(bytes)
       /\ WholeSubBlocks(bytes, pos + bytes[pos] + 1)

----------------------------------------------------------------------------
(* Properties *)

\* C1: for every valid index sequence, encode returns and a standard GIF/LZW
\* decoder turns what it appended to the sink back into the sequence; the bit
\* stream written up to the end-of-frame code already decodes to it.
C1_RoundTrip ==
    ValidInput =>
        /\ EncodeEnded => pc = "done" /\ GifDecode(Appended(lzw)) = lzw.pixels
        /\ AtEndOfFrame =>
               LzwDecode(StreamBits, 0, lzw.init_code_size, lzw.init_code_size + 1,
                         <<>>, -1, <<>>) = lzw.pixels

\* C2: on a valid input every step leaves the bytes already in the sink as
\* they were, what encode has appended is the code size byte followed by
\* whole sub-blocks (a length byte in 1..254, then that many bytes), closed by
\* one zero byte once encode returns, and at most 254 bytes are pending.
C2_SinkShape ==
    [][ValidInput =>
          /\ IsPrefix(lzw.output, lzw'.output)
          /\ lzw'.acc <= 254
          /\ LET app == Appended(lzw')
             IN /\ app # <<>>
                /\ app[1] = lzw.init_code_size
                /\ IF pc' = "done"
                   THEN /\ app[Len(app)] = 0
                        /\ WholeSubBlocks(SubSeq(app, 1, Len(app) - 1), 2)
                   ELSE WholeSubBlocks(app, 2)]_vars

\* C3: for an empty index sequence the codes emitted are CLEAR then the
\* end-of-frame code and nothing else, and encode returns with the code size
\* byte, one sub-block holding the two codes, and the zero terminator.
C3_EmptyInput ==
    (ValidInput /\ lzw.pixels = <<>>) =>
        /\ (AtEndOfFrame \/ pc = "done") =>
               EmittedCodes = <<lzw.clear_code, lzw.end_of_frame_code>>
        /\ EncodeEnded =>
               /\ pc = "done"
               /\ \E b \in 0..255 :
                      Appended(lzw) = <<lzw.init_code_size, 1, b, 0>>

\* C4: on a valid input the end-of-frame code is passed to proc_output at
\* most once, as the last code, only once all width * height indices were
\* consumed by the loop, and it is emitted once encode returns.
C4_EndOfFrameOnce ==
    ValidInput =>
        /\ Cardinality(EoiPositions) <= 1
        /\ EoiPositions # {} =>
               /\ EoiPositions = {Len(lzw.emitted)}
               /\ lzw.remaining = 0
               /\ lzw.current_pixel = lzw.width * lzw.height
        /\ pc = "done" => EoiPositions # {}

\* A call of encode the specification rejects
InvalidInput ==
    \/ Len(lzw.pixels) # lzw.width * lzw.height
    \/ \E k \in 1..Len(lzw.pixels) : lzw.pixels[k] >= 2^lzw.init_code_size

\* C7: an index buffer whose length differs from width * height, or that holds
\* a symbol >= 2^colorDepth, is rejected before anything is appended to the
\* sink.
C7_InvalidInputRejected ==
    (InvalidInput /\ pc # "new") =>
        /\ lzw.output = lzw.prior
        /\ lzw.panicked /\ lzw.why = "InvalidInput"

\* The loop is about to take the path of lines 142-152 (a new pair), and the
\* next free code has reached the table limit
MissEnabled == LoopReady /\ lookup(lzw, c, code).kind = "empty"
TableFull == lzw.first_unused_entry >= 2^BITS

NewlyEmitted == SubSeq(lzw'.emitted, Len(lzw.emitted) + 1, Len(lzw'.emitted))

NqWellFormed ==
    /\ Len(nq.pixels) > 0 /\ Len(nq.pixels) % 3 = 0
    /\ nq.sample_factorial >= 1
NqMalformed == Len(nq.pixels) = 0 \/ Len(nq.pixels) % 3 # 0
NqEnded == nq_pc \in {"panic", "sampling"}

\* What NeuQuant::new returns once learn has returned
Trained == build_idxs(unbias_net(nq))

\* C8: NeuQuant::new on well-formed input completes, the assigned indices
\* net[3] of the 256 neurons are a permutation of 0..255, and triple k of
\* get_color_map is the colour of the neuron whose assigned index is k.
C8_PaletteByAssignedIndex ==
    (NqWellFormed /\ NqEnded) =>
        /\ ~nq.panicked /\ ~Trained.panicked
        /\ {Trained.nets[i][4] : i \in 0..MAX_COLORS - 1} = 0..MAX_COLORS - 1
        /\ DOMAIN get_color_map(Trained) = 0..MAX_COLORS - 1
        /\ \A i \in 0..MAX_COLORS - 1 :
               get_color_map(Trained)[Trained.nets[i][4]]
                   = <<Trained.nets[i][1], Trained.nets[i][2], Trained.nets[i][3]>>

\* C9: on an instance trained on well-formed input, lookup_rgb of a colour
\* that is a palette entry completes and returns an index in 0..255 whose
\* palette entry is that colour.
C9_LookupExactMatch ==
    (NqWellFormed /\ NqEnded) =>
        /\ ~nq.panicked /\ ~Trained.panicked
        /\ \A k \in 0..MAX_COLORS - 1 :
               LET col == get_color_map(Trained)[k]
                   res == lookup_rgb(Trained, col[1], col[2], col[3])
               IN /\ ~res.panicked
                  /\ res.best \in 0..MAX_COLORS - 1
                  /\ get_color_map(Trained)[res.best] = col

\* C10: training fails exactly on a malformed buffer, and then with
\* InvalidInput; on a buffer of whole triples with a positive sampling factor
\* it never fails.
C10_FailsOnlyOnMalformed ==
    /\ NqWellFormed => ~nq.panicked
    /\ nq.panicked => nq.why = "InvalidInput"
    /\ (NqMalformed /\ NqEnded) => nq.panicked

\* C12: on a valid input the loop of compress is left only with the
\* remaining-pixel counter at 0 and all width * height indices read, also
\* when an index is 255.
C12_NoSentinelCollision ==
    (ValidInput /\ pc = "loop" /\ c = AsU8(EOF)) =>
        /\ lzw.remaining = 0
        /\ lzw.current_pixel = lzw.width * lzw.height

\* C13: on a valid input the end-of-frame loop takes no more than ceil(k / 8)
\* iterations for k buffered bits (after n iterations k - 8n bits are left,
\* never -8 or fewer), it does not fail, and encode returns with no bit
\* buffered and no byte pending.
C13_DrainTerminates ==
    ValidInput =>
        /\ pc = "drain" => lzw.current_bits > -8
        /\ drain_steps > 0 => ~lzw.panicked
        /\ pc = "done" => lzw.current_bits = 0 /\ lzw.acc = 0

\* C14: on a valid input every lookup of a (prefix, symbol) pair stays within
\* slots 0..5002 and ends on a slot that holds the key or is empty, and a new
\* entry is written into an empty slot only.
C14_ProbeInTable ==
    (ValidInput /\ LoopReady) =>
        LET r == lookup(lzw, c, code)
        IN /\ r.kind \in {"hit", "empty"}
           /\ r.i \in 0..HASH_SIZE - 1
           /\ r.kind = "empty" => ArrayGet(lzw.hashes, r.i) < 0

\* The bits of a code written at its width, least significant first, and
\* the concatenation of those of a sequence of codes
CodeBits(e) == [k \in 1..e.width |-> (e.code \div 2^(k - 1)) % 2]
RECURSIVE PackedBits(_)
PackedBits(em) ==
    IF em = <<>> THEN <<>> ELSE CodeBits(Head(em)) \o PackedBits(Tail(em))

\* C15: after proc_output has written a code other than the end-of-frame
\* code, fewer than 8 bits are buffered, and the bytes emitted so far followed
\* by the buffered bits are the codes written so far, each at the width in
\* force when it was written, least significant bit first.
C15_BitPacking ==
    (~lzw.panicked /\ pc \in {"loop", "eof"}) =>
        /\ lzw.current_bits \in 0..7
        /\ StreamBits = PackedBits(lzw.emitted)

\* Codes were written across a byte boundary: a byte is out, bits are buffered
C15_Witness ==
    /\ GifDepth /\ ~lzw.panicked /\ pc \in {"loop", "eof"}
    /\ Len(lzw.emitted) >= 2 /\ lzw.pixels # <<>>
    /\ lzw.chars # <<>>
    /\ lzw.current_bits > 0

\* C16: on a valid input every code written is CLEAR, the end-of-frame code,
\* an index below 2^colorDepth or a dictionary code assigned since the last
\* CLEAR, and fits the width it is written at; a pair found in the table
\* makes its stored code the running prefix, whole.
C16_CodesInRange ==
    [][ ValidInput =>
          /\ \A k \in 1..Len(lzw'.emitted) :
                 LET e == lzw'.emitted[k]
                 IN /\ e.code < 2^e.width
                    /\ \/ e.code = lzw'.clear_code
                       \/ e.code = lzw'.end_of_frame_code
                       \/ e.code < 2^lzw.init_code_size
                       \/ e.code \in lzw'.clear_code + 2 .. 2^BITS - 1
          /\ (LoopReady /\ lookup(lzw, c, code).kind = "hit") =>
                 code' = ArrayGet(lzw.codes, lookup(lzw, c, code).i) ]_vars

\* The sampling factors for which lines 94-95 compute without overflow
NqFactorInRange == nq.sample_factorial >= 1 /\ 3 * nq.sample_factorial <= 255

\* C11: on a buffer of whole triples shorter than 3 * 503 bytes training
\* behaves as with sampling factor 1, whatever factor was passed: the number
\* of samples is length / 3, the alpha decay divisor is 30, the stride is 3,
\* and training completes.
C11_ShortBufferAsFactorOne ==
    (NqWellFormed /\ NqFactorInRange /\ Len(nq.pixels) < MIN_PIC_BYTES) =>
        /\ nq_pc = "init" =>
               LET l == learn_locals(nq)
               IN /\ l.s.sample_factorial = 1
                  /\ l.step = 3
                  /\ l.sample_pixels = Len(nq.pixels) \div 3
                  /\ l.alpha_dec = 30
        /\ NqEnded => ~nq.panicked

\* C17: build_idxs leaves the neurons sorted by green, ascending, neurons of
\* equal green in their previous order, and assigns every entry of net_idxs a
\* position in 0..255.
C17_SortedByGreen ==
    (NqWellFormed /\ nq_pc = "init") =>
        LET t == Trained
        IN /\ ~t.panicked
           /\ \A i \in 0..MAX_COLORS - 2 :
                  \/ t.nets[i][2] < t.nets[i + 1][2]
                  \/ /\ t.nets[i][2] = t.nets[i + 1][2]
                     /\ t.nets[i][4] < t.nets[i + 1][4]
           /\ \A g \in 1..MAX_COLORS : t.net_idxs[g] \in 0..MAX_COLORS - 1

\* The first sample of learn, as lines 124-126 scale it, and the instance
\* after contest and alter_single of lines 128-129 with the initial alpha
FirstSample == <<sample(nq, 0), sample(nq, 1), sample(nq, 2)>>
FirstWinner == contest(nq, FirstSample[1], FirstSample[2], FirstSample[3])
AfterFirstSingle ==
    LET won == FirstWinner
    IN alter_single(won.s, INIT_ALPHA, won.pos,
                    FirstSample[1], FirstSample[2], FirstSample[3], INIT_ALPHA)

\* C19: the sample is the pixel scaled by 2^4 without loss of bits, and
\* alter_single changes the stored winner to old - alpha * (old - sample) / 1024
\* in every channel; at alpha = 1024 the winner becomes the scaled sample.
C19_WinnerMovesToSample ==
    (NqWellFormed /\ nq_pc = "init") =>
        LET won == FirstWinner
            smp == FirstSample
            after == AfterFirstSingle
            net == alter_single_net(won.s, INIT_ALPHA, won.pos,
                                    smp[1], smp[2], smp[3], INIT_ALPHA)
        IN /\ \A ch \in 1..3 : smp[ch] = nq.pixels[ch] * 2^NET_BIAS_SHIFT
           /\ ~after.panicked
           /\ \A ch \in 1..3 :
                  /\ after.nets[won.pos][ch] * net[ch][2] = net[ch][1]
                  /\ after.nets[won.pos][ch] = smp[ch]

\* The locals of learn at the head of the loop and after its first round
FirstRound == learn_round(learn_locals(nq))

\* C18: a round of learn moves the neighbours of the winner exactly when the
\* local radius is above 0, and then the neurons nearer to the winner than the
\* radius and no others; with radius 0 alter_neighbors moves no neuron and
\* completes, whichever neuron has won.
C18_NeighboursWithinRadius ==
    (NqWellFormed /\ NqFactorInRange /\ nq_pc = "init"
        /\ learn_locals(nq).sample_pixels > 0) =>
        LET l == learn_locals(nq)
            n == FirstRound
            smp == FirstSample
            j == FirstWinner.pos
            near(k) == k # j /\ Abs(k - j) < l.local_rad
        IN /\ ~n.s.panicked
           /\ \A k \in 0..MAX_COLORS - 1 :
                  /\ (near(k) /\ <<nq.nets[k][1], nq.nets[k][2], nq.nets[k][3]>> # smp)
                         => n.s.nets[k] # nq.nets[k]
                  /\ (k # j /\ ~near(k)) => n.s.nets[k] = nq.nets[k]
           /\ \A i \in 0..MAX_COLORS - 1 :
                  LET a == alter_neighbors(nq, 0, i, smp[1], smp[2], smp[3])
                  IN ~a.panicked /\ a.nets = nq.nets

\* C20: alpha and the radius are changed only when the count of samples is
\* a multiple of delta = max(1, samples / 100), then by alpha -= alpha / alpha_dec
\* and radius -= radius / 30; neither grows, alpha stays above 0, the local
\* radius is 0 when radius >> 6 is at most 1, and every recomputation of
\* rad_powers stays within the vector, whose length is at most 32.
C20_DecaySchedule ==
    (NqWellFormed /\ NqFactorInRange /\ nq_pc = "init"
        /\ learn_locals(nq).sample_pixels > 0) =>
        LET l == learn_locals(nq)
            n == FirstRound
            delta == IF l.sample_pixels \div LEARNING_CYCLES = 0
                     THEN 1 ELSE l.sample_pixels \div LEARNING_CYCLES
            decayed == l.rad - l.rad \div INIT_RAD_DEC
        IN /\ l.local_rad <= Len(nq.rad_powers)
           /\ Len(nq.rad_powers) <= MAX_RAD
           /\ ~l.s.panicked /\ ~n.s.panicked
           /\ n.i = 1
           /\ n.i % delta # 0 =>
                  n.alpha = l.alpha /\ n.rad = l.rad /\ n.local_rad = l.local_rad
           /\ n.i % delta = 0 =>
                  /\ n.alpha = l.alpha - l.alpha \div l.alpha_dec
                  /\ n.rad = decayed
                  /\ n.local_rad = IF decayed \div 2^INIT_RAD_BIAS_SHIFT <= 1
                                   THEN 0 ELSE decayed \div 2^INIT_RAD_BIAS_SHIFT
                  /\ n.local_rad <= Len(n.s.rad_powers)
           /\ 0 < n.alpha /\ n.alpha <= l.alpha /\ n.rad <= l.rad

====
